---- MODULE Spec2Model ----
(***************************************************************************)
(* Model of streamlit_app.py (Melchior article generator): the session     *)
(* state kept by main() in st.session_state, the research cache kept by    *)
(* ArticleGenerator, and the four pipeline stages (topic proposal, web     *)
(* research, outline, section-by-section drafting) as they are triggered   *)
(* by the buttons of main().                                               *)
(*                                                                         *)
(* The generation service is an opaque collaborator: every call draws its  *)
(* response from a small set of response shapes (or raises).               *)
(***************************************************************************)
EXTENDS Integers, Sequences, FiniteSets, TLC

(***************************************************************************)
(* Bounds of the model.                                                    *)
(***************************************************************************)
MaxTopics == 2      \* longest topic list the service returns
MaxSections == 2    \* longest section list the service returns

(***************************************************************************)
(* Program constants.                                                      *)
(***************************************************************************)
MinPromptLen == 200
ContextBudget == 4000     \* characters of the running article put in a prompt
ResearchBudget == 2000    \* characters of the research text put in a prompt

NoneVal == [none |-> TRUE]

\* A message shown to the user (k: the section it is about, 0 if none) and a
\* call of the generation service (k: the section it drafts, 0 if none).
M(kind) == <<kind, 0>>
SectionMsg(kind, k) == <<kind, k>>
Call(kind, k) == <<kind, k>>

(***************************************************************************)
(* Text.  A text is a sequence of tokens; a token is a markup tag, a run   *)
(* of n whitespace-separated words labelled s (s is a sequence of strings). *)
(* The research text, in which URLs are searched, is a sequence of         *)
(* character atoms instead.                                                *)
(***************************************************************************)
Tag(name) == [t |-> name, s |-> <<>>, n |-> 0]
Txt(s, n) == [t |-> "txt", s |-> s, n |-> n]

Digits == <<"1", "2", "3", "4", "5">>

Range(s) == {s[k] : k \in DOMAIN s}

\* All enumerations (without repetition) of a finite set.
Perms(S) == {p \in [1..Cardinality(S) -> S] : Range(p) = S}

(***************************************************************************)
(* Settings (default_settings and the settings panel of main).  Only the   *)
(* keys read by the pipeline stages are kept.                              *)
(***************************************************************************)
\* main, line 654: the options of the section length slider.  A string is a
\* sequence of words, so that the substring tests of the drafter can be made.
section_length_options ==
  {<<"krotka", "(200-250 slow)">>,
   <<"srednia", "(250-350 slow)">>,
   <<"dluga", "(350-450 slow)">>}

\* Values of section_length that are none of the slider's options (a settings
\* record handed to the drafter may hold any string).
OtherSectionLengths ==
  {<<"inna">>, <<"bardzo", "dluga", "i", "krotka">>}

SectionLengths == section_length_options \cup OtherSectionLengths

\* word in text, for a text that is a sequence of words
Contains(text, word) == \E k \in DOMAIN text : text[k] = word

default_settings ==
  [do_research |-> FALSE, add_bibliography |-> TRUE,
   num_sections |-> MaxSections, section_length |-> <<"srednia", "(250-350 slow)">>]

\* The settings records the panel is switched between.
SettingsChoices ==
  {default_settings,
   [default_settings EXCEPT !.do_research = TRUE, !.add_bibliography = FALSE,
                            !.num_sections = MaxSections - 1]}

\* The records the widgets of the panel can produce.
PanelSettings ==
  [do_research : BOOLEAN, add_bibliography : BOOLEAN, num_sections : 1..MaxSections,
   section_length : section_length_options]

\* The records a settings file can hold.
AllSettings ==
  [do_research : BOOLEAN, add_bibliography : BOOLEAN, num_sections : 1..MaxSections,
   section_length : SectionLengths]

(***************************************************************************)
(* The settings file.  Its text is a sequence of JSON tokens, each a        *)
(* sequence of strings: a brace, a key, or a value written as JSON writes   *)
(* it (a literal true/false, the decimal digits of a number, a string).     *)
(***************************************************************************)
SettingsKeys == <<"do_research", "add_bibliography", "num_sections", "section_length">>

DecDigits == <<"0", "1", "2", "3", "4", "5", "6", "7", "8", "9">>

\* The decimal digits of a natural number.
RECURSIVE ToDigits(_)
ToDigits(n) ==
  IF n < 10 THEN <<DecDigits[n + 1]>>
  ELSE ToDigits(n \div 10) \o <<DecDigits[(n % 10) + 1]>>

DigitValue(d) == (CHOOSE v \in DOMAIN DecDigits : DecDigits[v] = d) - 1

\* The number written by a non-empty sequence of decimal digits.
RECURSIVE FromDigits(_)
FromDigits(ds) ==
  IF Len(ds) = 1 THEN DigitValue(ds[1])
  ELSE 10 * FromDigits(SubSeq(ds, 1, Len(ds) - 1)) + DigitValue(ds[Len(ds)])

\* A truth value is written as Python prints it.
DumpBoolPython(b) == <<"lit", IF b THEN "True" ELSE "False">>

\* JSON text of a truth value, a number, a string and a key.
DumpBool(b) == <<"lit", IF b THEN "true" ELSE "false">>
DumpInt(n) == <<"int">> \o ToDigits(n)
DumpStr(w) == <<"str">> \o w
DumpKey(k) == <<"key", SettingsKeys[k]>>

\* json.dump(settings, f, ensure_ascii=False, indent=2)
json_dump(s) ==
  <<<<"{">>,
    DumpKey(1), DumpBool(s.do_research),
    DumpKey(2), DumpBool(s.add_bibliography),
    DumpKey(3), DumpInt(s.num_sections),
    DumpKey(4), DumpStr(s.section_length),
    <<"}">>>>

IsBoolToken(tok) == Len(tok) = 2 /\ tok[1] = "lit" /\ tok[2] \in {"true", "false"}
IsIntToken(tok) ==
  /\ Len(tok) >= 2 /\ tok[1] = "int"
  /\ \A k \in 2..Len(tok) : tok[k] \in Range(DecDigits)
IsStrToken(tok) == Len(tok) >= 1 /\ tok[1] = "str"

\* The text is a complete JSON object.
WellFormed(text) ==
  /\ Len(text) >= 2 /\ text[1] = <<"{">> /\ text[Len(text)] = <<"}">>
  /\ Len(text) % 2 = 0
  /\ \A k \in 1..((Len(text) - 2) \div 2) :
       /\ Len(text[2 * k]) = 2 /\ text[2 * k][1] = "key"
       /\ \/ IsBoolToken(text[2 * k + 1])
          \/ IsIntToken(text[2 * k + 1])
          \/ IsStrToken(text[2 * k + 1])

\* The value of a JSON value token.
LoadValue(tok) ==
  IF tok[1] = "lit" THEN tok[2] = "true"
  ELSE IF tok[1] = "int" THEN FromDigits(Tail(tok))
  ELSE Tail(tok)

\* The token after key name in an object that holds the key.
ValueOf(text, name) ==
  text[(CHOOSE k \in DOMAIN text : text[k] = <<"key", name>>) + 1]

\* json.load(f): raises on a text that is no JSON; the files drawn hold all the
\* keys of a settings record or are no JSON.
json_load(text) ==
  IF WellFormed(text) /\ \A k \in DOMAIN SettingsKeys : DumpKey(k) \in Range(text)
  THEN [raised |-> FALSE,
        value |-> [do_research |-> LoadValue(ValueOf(text, "do_research")),
                   add_bibliography |-> LoadValue(ValueOf(text, "add_bibliography")),
                   num_sections |-> LoadValue(ValueOf(text, "num_sections")),
                   section_length |-> LoadValue(ValueOf(text, "section_length"))]]
  ELSE [raised |-> TRUE, value |-> NoneVal]

NoFile == [exists |-> FALSE, text |-> <<>>]

\* save_settings, lines 78-81
save_settings(s) == [exists |-> TRUE, text |-> json_dump(s)]

\* A file that cannot be read as JSON is replaced by the defaults silently.
load_settings_silent(file) ==
  IF ~file.exists THEN [ret |-> default_settings, msgs |-> {}]
  ELSE IF json_load(file.text).raised
  THEN [ret |-> default_settings, msgs |-> {}]
  ELSE [ret |-> json_load(file.text).value, msgs |-> {}]

\* load_settings, lines 83-92
load_settings(file) ==
  IF ~file.exists THEN [ret |-> default_settings, msgs |-> {}]
  ELSE IF json_load(file.text).raised
  THEN [ret |-> default_settings, msgs |-> {M("warning:settings")}]
  ELSE [ret |-> json_load(file.text).value, msgs |-> {}]

\* Files that are no JSON: an empty file, a text that is no object, and the
\* beginnings of a written record.
MalformedFiles ==
  {[exists |-> TRUE, text |-> <<>>], [exists |-> TRUE, text |-> <<<<"str", "x">>>>]}
  \cup {[exists |-> TRUE, text |-> SubSeq(json_dump(default_settings), 1, k)] :
          k \in {1, 4, 9}}

\* The states in which a session can find the settings file.
SettingsFiles ==
  {NoFile} \cup MalformedFiles \cup {save_settings(s) : s \in AllSettings}

\* main, lines 654-667: the value the section length slider starts from.
PanelValues(loaded) ==
  [loaded EXCEPT !.section_length =
     IF @ \in section_length_options THEN @ ELSE <<"srednia", "(250-350 slow)">>]

\* main, lines 552-553 and 726-751, in the first run of a session: the
\* settings are loaded, shown in the panel, and saved when the panel's values
\* differ from what was loaded.
SessionStart(file) ==
  LET r == load_settings(file)
      updated_settings == PanelValues(r.ret)
  IN [loaded |-> r.ret,
      msgs |-> r.msgs,
      settings |-> updated_settings,
      settings_file |-> IF updated_settings # r.ret
                        THEN save_settings(updated_settings) ELSE file]

(***************************************************************************)
(* Topics.  The title stands for the topic's content (title, keywords and  *)
(* description); two proposals of the service reuse the ids 1..n.          *)
(***************************************************************************)
Batches == {"A", "B"}

Topic(id, b, k) == [id |-> id, title |-> <<b, Digits[k]>>]

TopicList(b, n) == [k \in 1..n |-> Topic(k, b, k)]

TopicLists == {TopicList(b, MaxTopics) : b \in Batches}

\* Responses of the service to generate_topics.
TopicsResponses ==
  {[kind |-> "raise", topics |-> <<>>],
   [kind |-> "notjson", topics |-> <<>>],
   [kind |-> "nokey", topics |-> <<>>]}
  \cup {[kind |-> "ok", topics |-> tl] : tl \in TopicLists}

Keywords == {"", "kw"}

VARIABLES
  settings,              \* st.session_state.settings
  settings_file,         \* the file SETTINGS_FILE
  topics,                \* st.session_state.topics
  selected_topic_index,  \* st.session_state.selected_topic_index (0 = None)
  research_results,      \* st.session_state.generator.research_results
  outline,               \* st.session_state.outline
  article_content,       \* st.session_state.article_content
  i,                     \* the drafter's locals when it returned or raised: the
  total_words,           \*   number of sections appended and the word count
  prompts,               \* what the drafter put in its prompts, one per call
  reports,               \* the per-section lines the drafter reported
  stage,                 \* the handler that ran last
  ret,                   \* what its stage method returned (NoneVal if nothing)
  msgs,                  \* messages it showed to the user
  calls                  \* service calls it issued

vars == <<settings, settings_file, topics, selected_topic_index, research_results, outline,
          article_content, i, total_words, prompts, reports, stage, ret, msgs,
          calls>>


(***************************************************************************)
(* ArticleGenerator.generate_topics.  self is the generator's research     *)
(* cache, returned with the result so that the method's effect on it is    *)
(* explicit.                                                               *)
(***************************************************************************)
\* A new proposal of topics drops the research done for the old ones.
generate_topics_clears_cache(self, keywords, sett, resp) ==
  [raised |-> resp.kind = "raise",
   ret |-> IF resp.kind = "ok" THEN resp.topics ELSE <<>>,
   msgs |-> IF resp.kind \in {"notjson", "nokey"} THEN {M("error:topics")} ELSE {},
   calls |-> <<Call("topics", 0)>>,
   research_results |-> IF resp.kind = "ok" THEN <<>> ELSE self]

\* A response without the "topics" entry is taken for an empty proposal.
generate_topics_silent(self, keywords, sett, resp) ==
  [raised |-> resp.kind = "raise",
   ret |-> IF resp.kind = "ok" THEN resp.topics ELSE <<>>,
   msgs |-> IF resp.kind = "notjson" THEN {M("error:topics")} ELSE {},
   calls |-> <<Call("topics", 0)>>,
   research_results |-> self]

generate_topics(self, keywords, sett, resp) ==
  [raised |-> resp.kind = "raise",
   ret |-> IF resp.kind = "ok" THEN resp.topics ELSE <<>>,
   msgs |-> IF resp.kind \in {"notjson", "nokey"} THEN {M("error:topics")} ELSE {},
   calls |-> <<Call("topics", 0)>>,
   research_results |-> self]

(***************************************************************************)
(* Research.  The research text is a sequence of character atoms: "H"      *)
(* stands for the scheme prefix "http://" (or "https://"), " " for         *)
(* whitespace; a URL is a sequence of atoms that starts with "H".          *)
(***************************************************************************)
UrlStop == {" ", ")", "\"", "'"}

\* The longest run of non-stop atoms of text that starts at position p.
RECURSIVE RunEnd(_, _)
RunEnd(text, p) ==
  IF p + 1 <= Len(text) /\ text[p + 1] \notin UrlStop
  THEN RunEnd(text, p + 1) ELSE p

\* re.findall(r'https?://[^\s)"\']+', content): the matches, left to right.
RECURSIVE FindAllUrls(_, _)
FindAllUrls(text, p) ==
  IF p > Len(text) THEN <<>>
  ELSE IF text[p] = "H" /\ RunEnd(text, p) > p
       THEN <<SubSeq(text, p, RunEnd(text, p))>> \o FindAllUrls(text, RunEnd(text, p) + 1)
       ELSE FindAllUrls(text, p + 1)

\* Lines 203-206: the URLs of the annotations that carry a url_citation.
RECURSIVE AnnotationCitations(_)
AnnotationCitations(anns) ==
  IF anns = <<>> THEN <<>>
  ELSE (IF Head(anns).kind = "url_citation" THEN <<Head(anns).url>> ELSE <<>>)
       \o AnnotationCitations(Tail(anns))

UrlCit(u) == [kind |-> "url_citation", url |-> u]
OtherAnn == [kind |-> "other", url |-> <<>>]

\* Research texts returned by the search-augmented service.
ResearchContents ==
  {<<>>,
   <<"w", " ", "H", " ", "H", "H", "a">>,
   <<"w", " ", "(", "H", "a", "?", "u", ")", " ", "H", "b", " ", "H", "a", "?", "u">>}

\* message.annotations: the attribute is absent, is None, or is a list.
ResearchAnnotations ==
  {[attr |-> "absent", list |-> <<>>],
   [attr |-> "none", list |-> <<>>],
   [attr |-> "list", list |-> <<>>],
   [attr |-> "list", list |-> <<OtherAnn>>],
   [attr |-> "list", list |-> <<UrlCit(<<"H", "c">>), OtherAnn, UrlCit(<<"x">>), UrlCit(<<"H", "c">>)>>]}

ResearchResponses ==
  {[kind |-> "raise", content |-> <<>>, annotations |-> [attr |-> "absent", list |-> <<>>]]}
  \cup [kind : {"ok"}, content : ResearchContents, annotations : ResearchAnnotations]

\* The responses drawn while the whole session is explored.
SessionResearchResponses ==
  {r \in ResearchResponses :
     \/ r.kind = "raise"
     \/ r.content = <<>> /\ r.annotations.attr = "absent"
     \/ Len(r.content) > 7 /\ Len(r.annotations.list) > 1}

\* Lines 208-211: the fallback enumerates a set, so its order is arbitrary.
CitationOrders(resp) == Perms(Range(FindAllUrls(resp.content, 1)))

\* A failed research run caches an empty result for the topic.
perform_web_research_caches_failure(self, topic, sett, resp, ord) ==
  IF ~sett.do_research
  THEN [ret |-> <<>>, msgs |-> {}, calls |-> <<>>, research_results |-> self]
  ELSE IF resp.kind = "raise" \/ resp.annotations.attr = "none"
  THEN [ret |-> <<>>,
        msgs |-> {M("info:research"), M("error:research"), M("warning:research_unavailable")},
        calls |-> <<Call("research", 0)>>,
        research_results |->
          (topic.id :> [content |-> <<>>, citations |-> <<>>]) @@ self]
  ELSE LET annotations == IF resp.annotations.attr = "list"
                          THEN resp.annotations.list ELSE <<>>
           fromAnn == AnnotationCitations(annotations)
           citations == IF fromAnn = <<>> THEN ord ELSE fromAnn
       IN [ret |-> resp.content,
           msgs |-> {M("info:research"), M("success:research")},
           calls |-> <<Call("research", 0)>>,
           research_results |->
             (topic.id :> [content |-> resp.content, citations |-> citations]) @@ self]

\* The URLs found in the text are added to those of the annotations.
perform_web_research_merges(self, topic, sett, resp, ord) ==
  IF ~sett.do_research
  THEN [ret |-> <<>>, msgs |-> {}, calls |-> <<>>, research_results |-> self]
  ELSE IF resp.kind = "raise" \/ resp.annotations.attr = "none"
  THEN [ret |-> <<>>,
        msgs |-> {M("info:research"), M("error:research"), M("warning:research_unavailable")},
        calls |-> <<Call("research", 0)>>,
        research_results |-> self]
  ELSE LET annotations == IF resp.annotations.attr = "list"
                          THEN resp.annotations.list ELSE <<>>
           fromAnn == AnnotationCitations(annotations)
           citations == fromAnn \o ord
       IN [ret |-> resp.content,
           msgs |-> {M("info:research"), M("success:research")},
           calls |-> <<Call("research", 0)>>,
           research_results |->
             (topic.id :> [content |-> resp.content, citations |-> citations]) @@ self]

(***************************************************************************)
(* ArticleGenerator.perform_web_research.  ord is the order in which       *)
(* list(set(...)) enumerates the URLs found in the text.                   *)
(***************************************************************************)
perform_web_research(self, topic, sett, resp, ord) ==
  IF ~sett.do_research
  THEN [ret |-> <<>>, msgs |-> {}, calls |-> <<>>, research_results |-> self]
  ELSE IF resp.kind = "raise" \/ resp.annotations.attr = "none"
  THEN [ret |-> <<>>,
        msgs |-> {M("info:research"), M("error:research"), M("warning:research_unavailable")},
        calls |-> <<Call("research", 0)>>,
        research_results |-> self]
  ELSE LET annotations == IF resp.annotations.attr = "list"
                          THEN resp.annotations.list ELSE <<>>
           fromAnn == AnnotationCitations(annotations)
           citations == IF fromAnn = <<>> THEN ord ELSE fromAnn
       IN [ret |-> resp.content,
           msgs |-> {M("info:research"), M("success:research")},
           calls |-> <<Call("research", 0)>>,
           research_results |->
             (topic.id :> [content |-> resp.content, citations |-> citations]) @@ self]

\* self.research_results.get(topic["id"], {}).get("content", "")
CachedContent(self, topic) ==
  IF topic.id \in DOMAIN self THEN self[topic.id].content ELSE <<>>

(***************************************************************************)
(* Outlines.  A parsed JSON object records which of its keys are present   *)
(* (has); an outline section likewise.                                     *)
(***************************************************************************)
OutlineKeys == {"article_title", "target_audience", "main_keywords", "sections"}
SectionKeys == {"section_number", "title", "estimated_words", "keywords", "prompt"}

Section(k, plen, has) ==
  [has |-> has, section_number |-> k, title |-> <<"S", Digits[k]>>, prompt_len |-> plen]

OutlineDict(has, n, plen) ==
  [has |-> has, article_title |-> <<"T">>, target_audience |-> <<"aud">>,
   sections |-> [k \in 1..n |-> Section(k, plen, SectionKeys)]]

\* Outlines in the expected shape; the section count and the prompt lengths vary.
WellShapedOutlines ==
  {OutlineDict(OutlineKeys, n, MinPromptLen) : n \in 0..MaxSections}
  \cup {OutlineDict(OutlineKeys, 1, MinPromptLen - 1)}

\* JSON objects that are not in the expected shape.
MalformedOutlines ==
  {OutlineDict(OutlineKeys \ {k}, 1, MinPromptLen) :
     k \in {"article_title", "target_audience", "sections"}}
  \cup {OutlineDict({}, 0, MinPromptLen)}
  \cup {[OutlineDict(OutlineKeys, 1, MinPromptLen) EXCEPT
           !.sections = <<Section(1, 0, SectionKeys \ {"prompt"})>>]}

\* Responses of the service to generate_article_outline: the call raises, the
\* text is not JSON, the JSON is not an object (or its sections are not a list
\* of objects), or it is an object.
OutlineResponses ==
  {[kind |-> k, outline |-> NoneVal] : k \in {"raise", "notjson", "nondict"}}
  \cup {[kind |-> "dict", outline |-> o] : o \in WellShapedOutlines \cup MalformedOutlines}

\* outline.get("sections", [])
GetSections(o) == IF "sections" \in o.has THEN o.sections ELSE <<>>

\* len(section.get("prompt", ""))
PromptLen(sec) == IF "prompt" \in sec.has THEN sec.prompt_len ELSE 0

\* Python truth value of the value returned by generate_article_outline.
Truthy(o) == o # NoneVal /\ o.has # {}

\* Reading the research of a topic creates its (empty) cache entry.
generate_article_outline_setdefault(self, topic, sett, resp) ==
  LET cache == self @@ (topic.id :> [content |-> <<>>, citations |-> <<>>]) IN
  IF resp.kind = "raise"
  THEN [raised |-> TRUE, ret |-> NoneVal, msgs |-> {}, calls |-> <<Call("outline", 0)>>,
        research_results |-> cache]
  ELSE IF resp.kind # "dict"
  THEN [raised |-> FALSE, ret |-> NoneVal, msgs |-> {M("error:outline")},
        calls |-> <<Call("outline", 0)>>, research_results |-> cache]
  ELSE LET o == resp.outline
           secs == GetSections(o)
           short_prompts == {k \in DOMAIN secs : PromptLen(secs[k]) < MinPromptLen}
       IN [raised |-> FALSE,
           ret |-> o,
           msgs |-> (IF Len(secs) # sett.num_sections
                     THEN {M("warning:section_count")} ELSE {})
                    \cup (IF short_prompts # {}
                          THEN {M("warning:short_prompts")} ELSE {}),
           calls |-> <<Call("outline", 0)>>,
           research_results |-> cache]

\* An outline with the wrong number of sections is rejected.
generate_article_outline_strict(self, topic, sett, resp) ==
  IF resp.kind = "raise"
  THEN [raised |-> TRUE, ret |-> NoneVal, msgs |-> {}, calls |-> <<Call("outline", 0)>>,
        research_results |-> self]
  ELSE IF resp.kind # "dict" \/ Len(GetSections(resp.outline)) # sett.num_sections
  THEN [raised |-> FALSE, ret |-> NoneVal, msgs |-> {M("error:outline")},
        calls |-> <<Call("outline", 0)>>, research_results |-> self]
  ELSE LET o == resp.outline
           secs == GetSections(o)
           short_prompts == {k \in DOMAIN secs : PromptLen(secs[k]) < MinPromptLen}
       IN [raised |-> FALSE,
           ret |-> o,
           msgs |-> IF short_prompts # {}
                    THEN {M("warning:short_prompts")} ELSE {},
           calls |-> <<Call("outline", 0)>>,
           research_results |-> self]

(***************************************************************************)
(* ArticleGenerator.generate_article_outline.                              *)
(***************************************************************************)
generate_article_outline(self, topic, sett, resp) ==
  LET research_data == CachedContent(self, topic) IN
  IF resp.kind = "raise"
  THEN [raised |-> TRUE, ret |-> NoneVal, msgs |-> {}, calls |-> <<Call("outline", 0)>>,
        research_results |-> self]
  ELSE IF resp.kind # "dict"
  THEN [raised |-> FALSE, ret |-> NoneVal, msgs |-> {M("error:outline")},
        calls |-> <<Call("outline", 0)>>, research_results |-> self]
  ELSE LET o == resp.outline
           secs == GetSections(o)
           short_prompts == {k \in DOMAIN secs : PromptLen(secs[k]) < MinPromptLen}
       IN [raised |-> FALSE,
           ret |-> o,
           msgs |-> (IF Len(secs) # sett.num_sections
                     THEN {M("warning:section_count")} ELSE {})
                    \cup (IF short_prompts # {}
                          THEN {M("warning:short_prompts")} ELSE {}),
           calls |-> <<Call("outline", 0)>>,
           research_results |-> self]

(***************************************************************************)
(* Drafting (generate_article_section_by_section).                         *)
(***************************************************************************)
\* Lines 386-404: the targets derived from the section_length setting.
RealTarget(section_length) ==
  IF Contains(section_length, "krotka") THEN 225
  ELSE IF Contains(section_length, "dluga") THEN 400
  ELSE 300

\* display_target = real_target in every branch
DisplayTarget(section_length) == RealTarget(section_length)

\* int(real_target * length_multiplier), length_multiplier = 1.25
AiTarget(section_length) == (RealTarget(section_length) * 125) \div 100

\* The drafter's minimum is 80% of its original target, computed in the code's
\* place from the inflated target.
MinAcceptableOfInflated(section_length) ==
  (AiTarget(section_length) * 80) \div 100

MinAcceptable(section_length) ==
  IF Contains(section_length, "krotka") THEN 180
  ELSE IF Contains(section_length, "dluga") THEN 320
  ELSE 240

\* Texts returned by the service for one section.
SectionTexts ==
  {<<Tag("<h3>"), Txt(<<"head">>, 2), Tag("</h3>"), Tag("\n"),
     Tag("<p>"), Txt(<<"body">>, 258), Tag("</p>")>>,
   <<Tag("<p>"), Txt(<<"body">>, 200), Tag("</p>")>>}

SectionResponses ==
  {[kind |-> "raise", content |-> <<>>]}
  \cup {[kind |-> "ok", content |-> t] : t \in SectionTexts}

\* The responses to the calls of one run of the drafter: nothing is drawn for
\* the sections after a call that raised.
DraftResponsesOf(Responses, n) ==
  {resps \in [1..n -> Responses] :
     \A j, k \in 1..n : (j < k /\ resps[j].kind = "raise") => resps[k].kind = "raise"}

DraftResponses(n) == DraftResponsesOf(SectionResponses, n)

\* Texts for one section, drawn when the drafter alone is explored: 200 words
\* without heading; a heading of 2 words on one line and a body of 238; a
\* heading spread over three lines and a body of 258; a body longer than the
\* context budget.
DraftSectionTexts ==
  {<<Tag("<p>"), Txt(<<"body">>, 200), Tag("</p>")>>,
   <<Tag("<h3>"), Txt(<<"head">>, 2), Tag("</h3>"), Tag("\n"),
     Tag("<p>"), Txt(<<"body">>, 238), Tag("</p>")>>,
   <<Tag("<h3>"), Tag("\n"), Txt(<<"head">>, 2), Tag("\n"), Tag("</h3>"), Tag("\n"),
     Tag("<p>"), Txt(<<"body">>, 258), Tag("</p>")>>,
   <<Tag("<p>"), Txt(<<"body">>, ContextBudget \div 2 + 100), Tag("</p>")>>}

\* The service answers every call of the drafter.
DraftSectionResponses == {[kind |-> "ok", content |-> t] : t \in DraftSectionTexts}

\* Lines 493-494: the tags are removed and the remaining words counted.
RECURSIVE WordCount(_)
WordCount(text) ==
  IF text = <<>> THEN 0
  ELSE (IF Head(text).t = "txt" THEN Head(text).n ELSE 0) + WordCount(Tail(text))

\* Position of the first "</h3>" at or after p that no line break precedes
\* (0 if there is none): what ".*?</h3>" matches, "." excluding the line break.
RECURSIVE CloseH3(_, _)
CloseH3(text, p) ==
  IF p > Len(text) THEN 0
  ELSE IF text[p].t = "</h3>" THEN p
  ELSE IF text[p].t = "\n" THEN 0
  ELSE CloseH3(text, p + 1)

\* The position after the whitespace that starts at p.
RECURSIVE SkipSpace(_, _)
SkipSpace(text, p) ==
  IF p <= Len(text) /\ text[p].t = "\n" THEN SkipSpace(text, p + 1) ELSE p

\* Line 504: re.sub(r'<h3>.*?</h3>\s*', '', section_content)
RECURSIVE StripH3(_, _)
StripH3(text, p) ==
  IF p > Len(text) THEN <<>>
  ELSE IF text[p].t = "<h3>" /\ CloseH3(text, p + 1) # 0
       THEN StripH3(text, SkipSpace(text, CloseH3(text, p + 1) + 1))
       ELSE <<text[p]>> \o StripH3(text, p + 1)

\* Line 407: the article starts with the heading of the article title.
ArticleHead(o) ==
  <<Tag("<h3>"), Txt(o.article_title, 1), Tag("</h3>"), Tag("\n"), Tag("\n")>>

\* Line 507: the canonical heading and the cleaned body of one section.
SectionBlock(sec, body) ==
  <<Tag("<h3>"), Txt(sec.title, 1), Tag("</h3>"), Tag("\n"), Tag("\n")>>
  \o body \o <<Tag("\n"), Tag("\n")>>

\* len() of a token of the running article: the characters of a tag; a run of
\* n words is taken to be n one-letter words separated by single spaces.
CharLen(tok) ==
  CASE tok.t = "txt" -> IF tok.n = 0 THEN 0 ELSE 2 * tok.n - 1
    [] tok.t = "cut" -> tok.n
    [] tok.t = "\n" -> 1
    [] tok.t = "<p>" -> 3
    [] tok.t \in {"<h3>", "</p>", "<ol>"} -> 4
    [] OTHER -> 5

RECURSIVE Chars(_)
Chars(text) == IF text = <<>> THEN 0 ELSE CharLen(Head(text)) + Chars(Tail(text))

\* The last c characters of a token that is longer than c.
CutTail(tok, c) == [t |-> "cut", s |-> <<tok.t>> \o tok.s, n |-> c]

\* text[-c:] for c > 0
RECURSIVE LastChars(_, _)
LastChars(text, c) ==
  IF c = 0 \/ text = <<>> THEN <<>>
  ELSE LET tok == text[Len(text)]
           rest == SubSeq(text, 1, Len(text) - 1)
       IN IF CharLen(tok) <= c
          THEN LastChars(rest, c - CharLen(tok)) \o <<tok>>
          ELSE <<CutTail(tok, c)>>

\* The whole running article is put in the prompt.
PreviousContextWhole(full_article) == full_article

\* Line 422
PreviousContext(full_article) ==
  IF Chars(full_article) > ContextBudget
  THEN LastChars(full_article, ContextBudget)
  ELSE full_article

\* Line 479: research_content[:2000] if research_content else "Brak danych..."
ResearchSlice(research_content) ==
  IF research_content # <<>>
  THEN [present |-> TRUE,
        text |-> SubSeq(research_content, 1,
                        IF Len(research_content) < ResearchBudget
                        THEN Len(research_content) ELSE ResearchBudget)]
  ELSE [present |-> FALSE, text |-> <<>>]

\* Lines 425-482: what the prompt of section k holds of the drafter's state.
SectionPrompt(k, sett, full_article, research_content) ==
  [k |-> k,
   ai_target |-> AiTarget(sett.section_length),
   previous_context |-> PreviousContext(full_article),
   research |-> ResearchSlice(research_content)]

\* A section passes only when it has more words than the minimum.
SectionReportStrict(k, sett, section_word_count) ==
  [k |-> k,
   words |-> section_word_count,
   target |-> DisplayTarget(sett.section_length),
   pass |-> section_word_count > MinAcceptable(sett.section_length)]

\* Lines 497-500: the line reported for section k.
SectionReport(k, sett, section_word_count) ==
  [k |-> k,
   words |-> section_word_count,
   target |-> DisplayTarget(sett.section_length),
   pass |-> section_word_count >= MinAcceptable(sett.section_length)]

\* Lines 415-482: the keys the loop body reads before it calls the service.
SectionPromptOk(o, sec) ==
  /\ {"title", "keywords", "prompt", "section_number"} \subseteq sec.has
  /\ "target_audience" \in o.has

\* The query part of a URL is kept.
BeforeQueryKept(u) == u

\* Lines 523-525: citation.split("?")[0]
RECURSIVE BeforeQuery(_)
BeforeQuery(u) ==
  IF u = <<>> \/ Head(u) = "?" THEN <<>> ELSE <<Head(u)>> \o BeforeQuery(Tail(u))

\* Lines 521-529: one list item per citation.
RECURSIVE BibItems(_)
BibItems(citations) ==
  IF citations = <<>> THEN <<>>
  ELSE (IF Head(citations) # <<>> /\ Head(Head(citations)) = "H"
        THEN <<[t |-> "li_a", s |-> BeforeQuery(Head(citations)), n |-> 0]>>
        ELSE <<[t |-> "li", s |-> Head(citations), n |-> 0]>>)
       \o <<Tag("\n")>> \o BibItems(Tail(citations))

\* Lines 514-517
CachedCitations(self, topic) ==
  IF topic.id \in DOMAIN self THEN self[topic.id].citations ELSE <<>>

\* The bibliography is appended whenever there are citations.
BibliographyAlways(self, topic, sett) ==
  LET citations == CachedCitations(self, topic) IN
  IF citations # <<>>
  THEN <<Tag("\n"), Tag("<h3>"), Txt(<<"Bibliografia">>, 1), Tag("</h3>"), Tag("\n"),
         Tag("<ol>"), Tag("\n")>>
       \o BibItems(citations) \o <<Tag("</ol>"), Tag("\n")>>
  ELSE <<>>

\* Lines 519-531: the bibliography block appended after the sections.
Bibliography(self, topic, sett) ==
  LET citations == CachedCitations(self, topic) IN
  IF sett.add_bibliography /\ citations # <<>>
  THEN <<Tag("\n"), Tag("<h3>"), Txt(<<"Bibliografia">>, 1), Tag("</h3>"), Tag("\n"),
         Tag("<ol>"), Tag("\n")>>
       \o BibItems(citations) \o <<Tag("</ol>"), Tag("\n")>>
  ELSE <<>>

\* The loop asks again, once, for a section that came back under the minimum.
RECURSIVE DraftLoopRetry(_, _, _, _, _)
DraftLoopRetry(o, sett, resps, k, st) ==
  IF k > Len(o.sections) THEN st
  ELSE LET section == o.sections[k] IN
       IF ~SectionPromptOk(o, section)
       THEN [st EXCEPT !.raised = TRUE]
       ELSE IF resps[k].kind = "raise"
       THEN [st EXCEPT !.raised = TRUE, !.calls = Append(@, Call("section", k)),
                       !.prompts = Append(@, SectionPrompt(k, sett, st.full_article,
                                                           st.research_content))]
       ELSE LET section_content == resps[k].content
                section_word_count == WordCount(section_content)
                under == section_word_count < MinAcceptable(sett.section_length)
            IN DraftLoopRetry(o, sett, resps, k + 1,
                 [st EXCEPT
                  !.i = k,
                  !.calls = @ \o <<Call("section", k)>>
                            \o (IF under THEN <<Call("section", k)>> ELSE <<>>),
                  !.prompts = Append(@, SectionPrompt(k, sett, st.full_article,
                                                      st.research_content)),
                  !.reports = Append(@, SectionReport(k, sett, section_word_count)),
                  !.msgs = @ \cup
                    {IF ~under
                     THEN SectionMsg("success:section", k)
                     ELSE SectionMsg("warning:section", k)},
                  !.full_article = @
                    \o SectionBlock(section, StripH3(section_content, 1)),
                  !.total_words = @ + section_word_count])

\* Lines 415-508: the drafting loop from section k on (1-based).  st holds the
\* locals; resps[k] is the service's response to the call for section k.
RECURSIVE DraftLoop(_, _, _, _, _)
DraftLoop(o, sett, resps, k, st) ==
  IF k > Len(o.sections) THEN st
  ELSE LET section == o.sections[k] IN
       IF ~SectionPromptOk(o, section)
       THEN [st EXCEPT !.raised = TRUE]
       ELSE IF resps[k].kind = "raise"
       THEN [st EXCEPT !.raised = TRUE, !.calls = Append(@, Call("section", k)),
                       !.prompts = Append(@, SectionPrompt(k, sett, st.full_article,
                                                           st.research_content))]
       ELSE LET section_content == resps[k].content
                section_word_count == WordCount(section_content)
            IN DraftLoop(o, sett, resps, k + 1,
                 [raised |-> FALSE,
                  research_content |-> st.research_content,
                  i |-> k,
                  calls |-> Append(st.calls, Call("section", k)),
                  prompts |-> Append(st.prompts,
                                SectionPrompt(k, sett, st.full_article, st.research_content)),
                  reports |-> Append(st.reports,
                                SectionReport(k, sett, section_word_count)),
                  msgs |-> st.msgs \cup
                    {IF section_word_count >= MinAcceptable(sett.section_length)
                     THEN SectionMsg("success:section", k)
                     ELSE SectionMsg("warning:section", k)},
                  full_article |-> st.full_article
                    \o SectionBlock(section, StripH3(section_content, 1)),
                  total_words |-> st.total_words + section_word_count])

(***************************************************************************)
(* ArticleGenerator.generate_article_section_by_section.  When the method  *)
(* raises, ret is the running article at that point.                       *)
(***************************************************************************)
generate_article_section_by_section(self, o, topic, sett, resps) ==
  LET research_content == CachedContent(self, topic) IN
  IF ~({"article_title", "sections"} \subseteq o.has)
  THEN [raised |-> TRUE, ret |-> <<>>, msgs |-> {}, calls |-> <<>>, i |-> 0,
        prompts |-> <<>>, reports |-> <<>>,
        total_words |-> 0, research_results |-> self]
  ELSE LET st == DraftLoop(o, sett, resps, 1,
                   [raised |-> FALSE, research_content |-> research_content,
                    i |-> 0, calls |-> <<>>, prompts |-> <<>>, reports |-> <<>>,
                    msgs |-> {},
                    full_article |-> ArticleHead(o), total_words |-> 0])
       IN IF st.raised
          THEN [raised |-> TRUE, ret |-> st.full_article, msgs |-> st.msgs,
                calls |-> st.calls, i |-> st.i, total_words |-> st.total_words,
                prompts |-> st.prompts, reports |-> st.reports,
                research_results |-> self]
          ELSE [raised |-> FALSE,
                ret |-> st.full_article \o Bibliography(self, topic, sett),
                msgs |-> st.msgs \cup {M("success:article")},
                calls |-> st.calls, i |-> st.i, total_words |-> st.total_words,
                prompts |-> st.prompts, reports |-> st.reports,
                research_results |-> self]

\* main, lines 785-796: the selectbox option k is mapped back to the first
\* topic that carries the option's id.
FirstIndexWithId(tl, id) ==
  IF \E k \in DOMAIN tl : tl[k].id = id
  THEN CHOOSE k \in DOMAIN tl : tl[k].id = id /\ \A j \in 1..(k-1) : tl[j].id # id
  ELSE 0

Init ==
  /\ settings = default_settings
  /\ settings_file = NoFile
  /\ topics = <<>>
  /\ selected_topic_index = 0
  /\ research_results = <<>>
  /\ outline = NoneVal
  /\ article_content = NoneVal
  /\ i = 0
  /\ total_words = 0
  /\ prompts = <<>>
  /\ reports = <<>>
  /\ stage = "init"
  /\ ret = NoneVal
  /\ msgs = {}
  /\ calls = <<>>

\* The locals of the drafter are gone when another stage runs.
NoDraftLocals == i' = 0 /\ total_words' = 0 /\ prompts' = <<>> /\ reports' = <<>>

\* main, lines 726-751: a widget of the settings panel was changed, giving
\* one of the records of Choices.
ChangeSettingsWith(Choices) ==
  /\ \E s \in Choices :
       /\ s # settings
       /\ settings' = s
       /\ settings_file' = save_settings(s)
  /\ stage' = "settings" /\ ret' = NoneVal /\ msgs' = {} /\ calls' = <<>>
  /\ NoDraftLocals
  /\ UNCHANGED <<topics, selected_topic_index, research_results, outline,
                 article_content>>

ChangeSettings == ChangeSettingsWith(SettingsChoices)

\* main, lines 786-796: another option of the topic selectbox was chosen.
SelectTopic ==
  /\ topics # <<>>
  /\ \E k \in DOMAIN topics :
       /\ FirstIndexWithId(topics, topics[k].id) # selected_topic_index
       /\ selected_topic_index' = FirstIndexWithId(topics, topics[k].id)
  /\ stage' = "select" /\ ret' = NoneVal /\ msgs' = {} /\ calls' = <<>>
  /\ NoDraftLocals
  /\ UNCHANGED <<settings, settings_file, topics, research_results, outline, article_content>>

\* main, lines 759-761 (and 768-796 of the same run): "Generuj tematy".  The
\* selectbox keeps its selection when its options are the same as before and
\* starts at its first option otherwise; it is not drawn for an empty list.
ClickGenerateTopics ==
  /\ \E kw \in Keywords, resp \in TopicsResponses :
       /\ kw # ""
       /\ \E r \in {generate_topics(research_results, kw, settings, resp)} :
          /\ calls' = r.calls
          /\ research_results' = r.research_results
          /\ IF r.raised
             THEN /\ msgs' = {M("exception")}
                  /\ ret' = NoneVal
                  /\ UNCHANGED <<topics, selected_topic_index>>
             ELSE /\ msgs' = r.msgs
                  /\ ret' = r.ret
                  /\ topics' = r.ret
                  /\ selected_topic_index' =
                       IF r.ret = <<>> \/ r.ret = topics
                       THEN selected_topic_index
                       ELSE FirstIndexWithId(r.ret, r.ret[1].id)
  /\ stage' = "topics"
  /\ NoDraftLocals
  /\ UNCHANGED <<settings, settings_file, outline, article_content>>

\* main, lines 768-800: the topic the right-hand panel works on.
TopicShown == topics # <<>> /\ selected_topic_index # 0
CurrentTopic == topics[selected_topic_index]

\* main, lines 803-810: "Przeprowadz research".
ClickResearchWith(Responses) ==
  /\ TopicShown
  /\ settings.do_research
  /\ \E resp \in Responses :
       \E ord \in CitationOrders(resp) :
         \E r \in {perform_web_research(research_results, CurrentTopic, settings, resp, ord)} :
         /\ research_results' = r.research_results
         /\ calls' = r.calls
         /\ ret' = r.ret
         /\ msgs' = r.msgs \cup (IF r.ret # <<>> THEN {M("success:main_research")} ELSE {})
  /\ stage' = "research"
  /\ NoDraftLocals
  /\ UNCHANGED <<settings, settings_file, topics, selected_topic_index, outline, article_content>>

ClickResearch == ClickResearchWith(SessionResearchResponses)

\* A new outline is stored and the article drafted from the old one is kept.
OutlineHandlerKeepsArticle(topic) ==
  /\ \E resp \in OutlineResponses :
       \E r \in {generate_article_outline(research_results, topic, settings, resp)} :
       /\ research_results' = r.research_results
       /\ calls' = r.calls
       /\ IF r.raised
          THEN /\ msgs' = {M("exception")}
               /\ ret' = NoneVal
               /\ UNCHANGED <<outline, article_content>>
          ELSE /\ msgs' = r.msgs
               /\ ret' = r.ret
               /\ IF Truthy(r.ret)
                  THEN outline' = r.ret /\ UNCHANGED article_content
                  ELSE UNCHANGED <<outline, article_content>>
  /\ stage' = "outline"
  /\ NoDraftLocals
  /\ UNCHANGED <<settings, settings_file, topics, selected_topic_index>>

\* main, lines 813-818: the handler of "Generuj konspekt", run on topic, the
\* service answering with a response drawn from Responses.
OutlineHandlerWith(Responses, topic) ==
  /\ \E resp \in Responses :
       \E r \in {generate_article_outline(research_results, topic, settings, resp)} :
       /\ research_results' = r.research_results
       /\ calls' = r.calls
       /\ IF r.raised
          THEN /\ msgs' = {M("exception")}
               /\ ret' = NoneVal
               /\ UNCHANGED <<outline, article_content>>
          ELSE /\ msgs' = r.msgs
               /\ ret' = r.ret
               /\ IF Truthy(r.ret)
                  THEN outline' = r.ret /\ article_content' = NoneVal
                  ELSE UNCHANGED <<outline, article_content>>
  /\ stage' = "outline"
  /\ NoDraftLocals
  /\ UNCHANGED <<settings, settings_file, topics, selected_topic_index>>

OutlineHandler(topic) == OutlineHandlerWith(OutlineResponses, topic)

\* The button is shown without a topic, and the handler then runs on a
\* placeholder topic.
ClickGenerateOutlineNoTopic ==
  OutlineHandler(IF TopicShown THEN CurrentTopic ELSE Topic(1, "A", 1))

\* main, lines 798-818: "Generuj konspekt" is offered for the shown topic.
ClickGenerateOutline == TopicShown /\ OutlineHandler(CurrentTopic)

\* main, lines 821-840: "Generuj tresc artykulu", the service answering the
\* calls with responses drawn from Responses.
ClickGenerateArticleWith(Responses) ==
  /\ TopicShown
  /\ Truthy(outline)
  /\ \E resps \in DraftResponsesOf(Responses, Len(GetSections(outline))) :
       \E r \in {generate_article_section_by_section(
                   research_results, outline, CurrentTopic, settings, resps)} :
       /\ research_results' = r.research_results
       /\ calls' = r.calls
       /\ i' = r.i
       /\ total_words' = r.total_words
       /\ prompts' = r.prompts
       /\ reports' = r.reports
       /\ IF r.raised
          THEN /\ msgs' = r.msgs \cup {M("exception")}
               /\ ret' = NoneVal
               /\ UNCHANGED article_content
          ELSE /\ msgs' = r.msgs \cup {M("success:main_article")}
               /\ ret' = r.ret
               /\ article_content' = [text |-> r.ret, html |-> r.ret]
  /\ stage' = "draft"
  /\ UNCHANGED <<settings, settings_file, topics, selected_topic_index, outline>>

ClickGenerateArticle == ClickGenerateArticleWith(SectionResponses)

Next ==
  \/ ChangeSettings
  \/ SelectTopic
  \/ ClickGenerateTopics
  \/ ClickResearch
  \/ ClickGenerateOutline
  \/ ClickGenerateArticle

Spec == Init /\ [][Next]_vars

(***************************************************************************)
(* The research stage alone, with every shape of response: the topics are  *)
(* proposed, one is selected, and research is run on it.                   *)
(***************************************************************************)
ClickResearchAny == ClickResearchWith(ResearchResponses)

NextResearch ==
  \/ ChangeSettings
  \/ SelectTopic
  \/ ClickGenerateTopics
  \/ ClickResearchAny

SpecResearch == Init /\ [][NextResearch]_vars

(***************************************************************************)
(* The drafter alone, on every shape of input: a topic is shown, an        *)
(* outline in the expected shape is stored, and the article is drafted     *)
(* under any settings, cache and section texts.                            *)
(***************************************************************************)
DraftSettings ==
  [do_research : {TRUE}, add_bibliography : BOOLEAN, num_sections : {MaxSections},
   section_length : SectionLengths]

\* A research text longer than the research budget (it holds no URL).
LongResearch == [k \in 1..(ResearchBudget + 1) |-> "w"]

\* Caches: an entry for topic 1 with a URL that has a query part, a citation
\* that is no URL, and a repeated URL; an entry for topic 1 with a long text
\* and no citations; an entry for topic 2 only.
DraftCaches ==
  {(1 :> [content |-> <<"w", " ", "H", "a", "?", "u">>,
          citations |-> <<<<"H", "a", "?", "u">>, <<"x", "?", "y">>, <<"H", "c">>,
                          <<"H", "a", "?", "u">>>>]),
   (1 :> [content |-> LongResearch, citations |-> <<>>]),
   (2 :> [content |-> <<"w">>, citations |-> <<<<"H", "c">>>>])}

InitDraft ==
  /\ settings \in DraftSettings
  /\ settings_file = save_settings(settings)
  /\ topics = TopicList("A", MaxTopics)
  /\ selected_topic_index = 1
  /\ research_results \in DraftCaches
  /\ outline \in {OutlineDict(OutlineKeys, n, MinPromptLen) : n \in 0..MaxSections}
  /\ article_content = NoneVal
  /\ i = 0
  /\ total_words = 0
  /\ prompts = <<>>
  /\ reports = <<>>
  /\ stage = "init"
  /\ ret = NoneVal
  /\ msgs = {}
  /\ calls = <<>>

ClickGenerateArticleAny == ClickGenerateArticleWith(DraftSectionResponses)

NextDraft == ClickGenerateArticleAny

SpecDraft == InitDraft /\ [][NextDraft]_vars

(***************************************************************************)
(* Sessions and the settings file: a session starts from any state of the  *)
(* file, the panel changes the settings, topics are proposed, and a new    *)
(* session starts from the file the last one left.                         *)
(***************************************************************************)
InitSettings ==
  /\ \E f \in SettingsFiles :
       \E st \in {SessionStart(f)} :
         /\ settings = st.settings
         /\ settings_file = st.settings_file
         /\ ret = st.loaded
         /\ msgs = st.msgs
  /\ topics = <<>>
  /\ selected_topic_index = 0
  /\ research_results = <<>>
  /\ outline = NoneVal
  /\ article_content = NoneVal
  /\ i = 0
  /\ total_words = 0
  /\ prompts = <<>>
  /\ reports = <<>>
  /\ stage = "session"
  /\ calls = <<>>

\* main, lines 552-566 and 726-751: the first run of a new session.
NewSession ==
  /\ \E st \in {SessionStart(settings_file)} :
       /\ settings' = st.settings
       /\ settings_file' = st.settings_file
       /\ ret' = st.loaded
       /\ msgs' = st.msgs
  /\ topics' = <<>>
  /\ selected_topic_index' = 0
  /\ research_results' = <<>>
  /\ outline' = NoneVal
  /\ article_content' = NoneVal
  /\ NoDraftLocals
  /\ stage' = "session"
  /\ calls' = <<>>

ChangeSettingsAny == ChangeSettingsWith(PanelSettings)

NextSettings ==
  \/ NewSession
  \/ ChangeSettingsAny
  \/ SelectTopic
  \/ ClickGenerateTopics

SpecSettings == InitSettings /\ [][NextSettings]_vars

(***************************************************************************)
(* Properties.                                                             *)
(***************************************************************************)
StageFailed ==
  \/ M("exception") \in msgs
  \/ M("error:topics") \in msgs
  \/ M("error:research") \in msgs
  \/ M("error:outline") \in msgs

\* C1: the stages occur only in pipeline order: a research or outline stage
\* runs only from a state with a non-empty topic list and a selected topic, a
\* drafting stage only from a state with a stored outline, and an article is
\* never stored without an outline.
C1_StageOrder ==
  [][/\ (stage' \in {"research", "outline"} =>
           topics # <<>> /\ selected_topic_index \in DOMAIN topics)
     /\ (stage' = "draft" => outline # NoneVal /\ topics # <<>>)
     /\ (article_content' # NoneVal => outline' # NoneVal)]_vars

\* The whole pipeline was walked through: research, outline, article.
C1_Witness ==
  /\ stage = "draft"
  /\ article_content # NoneVal
  /\ CurrentTopic.id \in DOMAIN research_results

\* C2: a stage that fails leaves the session state it would have produced
\* (topic list, research cache, outline, article) as it was, and is not re-run.
C2_FailureKeepsState ==
  [][StageFailed' =>
       /\ (stage' = "topics" => topics' = topics /\ Len(calls') = 1)
       /\ (stage' = "research" =>
             research_results' = research_results /\ Len(calls') = 1)
       /\ (stage' = "outline" => outline' = outline /\ Len(calls') = 1)
       /\ (stage' = "draft" =>
             /\ article_content' = article_content
             /\ \A k \in DOMAIN calls' : calls'[k] = Call("section", k))]_vars

\* C3: the drafter issues one generation call per section, in outline order,
\* never a second call for a section (also when it is under the minimum), and
\* when it returns it has called for, and appended, every one of the n sections.
C3_OneCallPerSection ==
  stage = "draft" =>
    LET n == Len(GetSections(outline)) IN
    /\ Len(calls) <= n
    /\ \A k \in DOMAIN calls : calls[k] = Call("section", k)
    /\ i <= n
    /\ M("success:article") \in msgs =>
         /\ Len(calls) = n
         /\ i = n
         /\ \A k \in 1..n :
              /\ Txt(outline.sections[k].title, 1) \in Range(article_content.html)
              /\ (SectionMsg("success:section", k) \in msgs)
                   # (SectionMsg("warning:section", k) \in msgs)

\* An article of MaxSections sections was drafted whose first section came back
\* under the minimum.
C3_Witness ==
  /\ stage = "draft"
  /\ M("success:article") \in msgs
  /\ Len(GetSections(outline)) = MaxSections
  /\ SectionMsg("warning:section", 1) \in msgs
  /\ Len(calls) = MaxSections

\* C4: when the response to generate_topics is not JSON or has no "topics"
\* entry, generate_topics reports an error, returns the empty list and has
\* issued its one service call only.
C4_TopicsParseFailure ==
  /\ \A resp \in TopicsResponses :
       resp.kind \in {"notjson", "nokey"} =>
         LET r == generate_topics(research_results, "kw", settings, resp) IN
         /\ ~r.raised
         /\ r.ret = <<>>
         /\ M("error:topics") \in r.msgs
         /\ r.calls = <<Call("topics", 0)>>
  /\ (stage = "topics" /\ M("error:topics") \in msgs) =>
       /\ ret = <<>>
       /\ topics = <<>>
       /\ calls = <<Call("topics", 0)>>

\* generate_topics has just failed to parse the response.
C4_Witness ==
  /\ stage = "topics"
  /\ M("error:topics") \in msgs
  /\ topics = <<>>
  /\ Len(calls) = 1
\* The responses on which the research call, or the reading of its
\* annotations, raises.
ResearchFails(resp) == resp.kind = "raise" \/ resp.annotations.attr = "none"

OkSectionResponses == {r \in SectionResponses : r.kind = "ok"}

HasBibliography(html) == Tag("<ol>") \in Range(html)

\* C5: when the search-augmented call fails, perform_web_research returns empty
\* content and leaves the cache as it was; the outline stage can then be run
\* for the topic and, with no cached research for it, the drafter returns an
\* article without bibliography.
C5_ResearchFailure ==
  /\ TopicShown =>
       \A resp \in ResearchResponses :
         ResearchFails(resp) =>
           LET r == perform_web_research(research_results, CurrentTopic,
                      [settings EXCEPT !.do_research = TRUE], resp, <<>>) IN
           /\ r.ret = <<>>
           /\ r.research_results = research_results
           /\ M("error:research") \in r.msgs
           /\ M("warning:research_unavailable") \in r.msgs
  /\ (stage = "research" /\ M("error:research") \in msgs) =>
       /\ ret = <<>>
       /\ TopicShown
       /\ \A o \in WellShapedOutlines :
            /\ LET r == generate_article_outline(research_results, CurrentTopic, settings,
                          [kind |-> "dict", outline |-> o]) IN
               ~r.raised /\ r.ret = o
            /\ CurrentTopic.id \notin DOMAIN research_results =>
                 \A resps \in [1..Len(o.sections) -> OkSectionResponses] :
                   LET d == generate_article_section_by_section(
                              research_results, o, CurrentTopic, settings, resps) IN
                   ~d.raised /\ ~HasBibliography(d.ret)

\* Research has just failed for a topic that has no cached research.
C5_Witness ==
  /\ stage = "research"
  /\ M("error:research") \in msgs
  /\ calls = <<Call("research", 0)>>
  /\ CurrentTopic.id \notin DOMAIN research_results

\* The URLs of the url_citation annotations of a response, in annotation order.
UrlAnnotationUrls(anns) ==
  LET sel == SelectSeq(anns, LAMBDA a : a.kind = "url_citation")
  IN [k \in DOMAIN sel |-> sel[k].url]

\* The URLs a left-to-right search finds in a text: the maximal runs of
\* non-stop atoms that follow a scheme prefix not covered by an earlier run.
TextUrlSet(text) ==
  {SubSeq(text, p, q) : <<p, q>> \in
     {pq \in (DOMAIN text) \X (DOMAIN text) :
        /\ text[pq[1]] = "H"
        /\ pq[2] > pq[1]
        /\ \A j \in (pq[1] + 1)..pq[2] : text[j] \notin UrlStop
        /\ pq[2] = Len(text) \/ text[pq[2] + 1] \in UrlStop
        /\ ~\E p0 \in 1..(pq[1] - 1) :
               /\ text[p0] = "H"
               /\ \A j \in (p0 + 1)..pq[1] : text[j] \notin UrlStop}}

\* C6: when the response carries at least one url_citation annotation, the
\* cached citations are the annotation URLs in annotation order (the text is
\* not searched); otherwise they are the distinct URLs found in the text.
C6_TwoTierCitations ==
  /\ TopicShown =>
       \A resp \in ResearchResponses :
         ~ResearchFails(resp) =>
           \A ord \in CitationOrders(resp) :
             LET r == perform_web_research(research_results, CurrentTopic,
                        [settings EXCEPT !.do_research = TRUE], resp, ord)
                 cit == r.research_results[CurrentTopic.id].citations
                 ann == UrlAnnotationUrls(resp.annotations.list)
             IN IF ann # <<>>
                THEN cit = ann
                ELSE /\ Range(cit) = TextUrlSet(resp.content)
                     /\ Len(cit) = Cardinality(TextUrlSet(resp.content))
  /\ (stage = "research" /\ M("success:research") \in msgs) =>
       LET e == research_results[CurrentTopic.id] IN
       /\ e.content = ret
       /\ \/ /\ Range(e.citations) = TextUrlSet(e.content)
             /\ Len(e.citations) = Cardinality(TextUrlSet(e.content))
          \/ \E a \in ResearchAnnotations :
               /\ UrlAnnotationUrls(a.list) # <<>>
               /\ e.citations = UrlAnnotationUrls(a.list)

\* One topic's citations came from the annotations although its text holds
\* other URLs, and another topic's citations came from its text.
C6_Witness ==
  /\ stage = "research"
  /\ M("success:research") \in msgs
  /\ \E id \in DOMAIN research_results :
       LET e == research_results[id] IN
       /\ TextUrlSet(e.content) # {}
       /\ Range(e.citations) \cap TextUrlSet(e.content) = {}
       /\ Len(e.citations) > Cardinality(Range(e.citations))
  /\ \E id \in DOMAIN research_results :
       LET e == research_results[id] IN
       /\ Cardinality(TextUrlSet(e.content)) > 1
       /\ Range(e.citations) = TextUrlSet(e.content)

\* C7, as claimed: once an entry exists for a topic id, no later action
\* replaces it.
C7_WrittenOnce ==
  [][\A id \in DOMAIN research_results :
       /\ id \in DOMAIN research_results'
       /\ research_results'[id] = research_results[id]]_vars

\* C7, amended: an entry is never removed, and it is replaced only by a later
\* successful research run on the shown topic, which carries the entry's id;
\* a step writes no entry but that one.
C7_ReplacedOnlyByResearch ==
  [][/\ \A id \in DOMAIN research_results : id \in DOMAIN research_results'
     /\ \A id \in DOMAIN research_results' :
          (id \notin DOMAIN research_results
             \/ research_results'[id] # research_results[id]) =>
            /\ stage' = "research"
            /\ M("success:research") \in msgs'
            /\ topics' = topics
            /\ selected_topic_index' = selected_topic_index
            /\ id = topics[selected_topic_index].id]_vars

\* Research has just succeeded while every topic id had, or got, its entry.
C7_Witness ==
  /\ stage = "research"
  /\ M("success:research") \in msgs
  /\ Cardinality(DOMAIN research_results) = MaxTopics

\* C8: only the research stage writes the cache: the topic, outline and
\* drafting stages (and the settings panel and the selectbox) leave every
\* entry as it was, whether they succeed or fail.
C8_OnlyResearchWritesCache ==
  [][stage' # "research" => research_results' = research_results]_vars

\* An article was drafted for a topic with cached research.
C8_Witness ==
  /\ stage = "draft"
  /\ M("success:article") \in msgs
  /\ CurrentTopic.id \in DOMAIN research_results
  /\ research_results[CurrentTopic.id].citations # <<>>

OutlineWarnings == {M("warning:section_count"), M("warning:short_prompts")}

\* The soft violations of an outline in the expected shape.
SoftViolations(o, sett) ==
  (IF Len(o.sections) # sett.num_sections THEN {M("warning:section_count")} ELSE {})
  \cup (IF \E k \in DOMAIN o.sections : o.sections[k].prompt_len < MinPromptLen
        THEN {M("warning:short_prompts")} ELSE {})

\* C9: an outline in the expected shape with the wrong number of sections or
\* with prompts under 200 characters produces warnings only: it is returned
\* and stored as it is, after one service call, and it can be drafted.
C9_SoftValidation ==
  /\ TopicShown =>
       \A o \in WellShapedOutlines :
         LET r == generate_article_outline(research_results, CurrentTopic, settings,
                    [kind |-> "dict", outline |-> o]) IN
         /\ ~r.raised
         /\ r.ret = o
         /\ Truthy(r.ret)
         /\ r.msgs = SoftViolations(o, settings)
         /\ r.calls = <<Call("outline", 0)>>
  /\ (stage = "outline" /\ ret \in WellShapedOutlines /\ msgs \cap OutlineWarnings # {}) =>
       /\ outline = ret
       /\ article_content = NoneVal
       /\ calls = <<Call("outline", 0)>>
       /\ TopicShown /\ Truthy(outline)
       /\ \A resps \in [1..Len(outline.sections) -> OkSectionResponses] :
            ~generate_article_section_by_section(
               research_results, outline, CurrentTopic, settings, resps).raised

\* An outline with both soft violations was stored.
C9_Witness ==
  /\ stage = "outline"
  /\ msgs = OutlineWarnings
  /\ outline = ret
  /\ Len(outline.sections) # settings.num_sections

ExpectedShape(o) == {"article_title", "target_audience", "sections"} \subseteq o.has

\* C10: a response that lacks the article title, the audience or the section
\* list is answered with an error and a null result, so that no malformed
\* outline is stored in the session or handed to the drafter.
C10_MalformedNeverStored ==
  /\ (stage = "outline" /\ ret # NoneVal) => ExpectedShape(ret)
  /\ outline # NoneVal => ExpectedShape(outline)

\* C11: for every section_length (an option of the slider or any other
\* string) the minimum is at most the original target and at most the
\* inflated target, the inflated target is the integer part of 1.25 times
\* the original one, and the minimum is 80% of the original target; the
\* targets and verdicts the drafter reported obey the same relations.
C11_TargetBounds ==
  /\ \A sl \in SectionLengths :
       /\ MinAcceptable(sl) <= RealTarget(sl)
       /\ MinAcceptable(sl) <= AiTarget(sl)
       /\ AiTarget(sl) * 100 <= RealTarget(sl) * 125
       /\ RealTarget(sl) * 125 < (AiTarget(sl) + 1) * 100
       /\ MinAcceptable(sl) * 100 = RealTarget(sl) * 80
  /\ \A k \in DOMAIN reports :
       /\ prompts[k].ai_target * 100 <= reports[k].target * 125
       /\ reports[k].target * 125 < (prompts[k].ai_target + 1) * 100
       /\ reports[k].pass <=> reports[k].words * 100 >= reports[k].target * 80
       /\ reports[k].target <= prompts[k].ai_target

\* The drafter ran under a section_length that is no option of the slider and
\* reported one section as passing and one as under the minimum.
C11_Witness ==
  /\ stage = "draft"
  /\ settings.section_length \notin section_length_options
  /\ \E j, k \in DOMAIN reports : reports[j].pass /\ ~reports[k].pass

MediumLength == <<"srednia", "(250-350 slow)">>

\* C12: with the medium section length the drafter asks for 375 words, shows
\* 300 as the target and reports a section as passing exactly when it has at
\* least 240 words: 260 and 240 pass, 200 is reported as under the target.
C12_MediumScenario ==
  /\ AiTarget(MediumLength) = 375
  /\ MinAcceptable(MediumLength) = 240
  /\ DisplayTarget(MediumLength) = 300
  /\ (stage = "draft" /\ settings.section_length = MediumLength) =>
       /\ \A k \in DOMAIN prompts : prompts[k].ai_target = 375
       /\ \A k \in DOMAIN reports :
            /\ reports[k].target = 300
            /\ reports[k].pass <=> reports[k].words >= 240
            /\ reports[k].words \in {240, 260} => reports[k].pass
            /\ reports[k].words = 200 => ~reports[k].pass
            /\ reports[k].pass <=> SectionMsg("success:section", k) \in msgs
            /\ ~reports[k].pass <=> SectionMsg("warning:section", k) \in msgs

\* Under the medium length one section of exactly 240 words was reported as
\* passing and one of 200 words as under the target.
C12_Witness ==
  /\ stage = "draft"
  /\ settings.section_length = MediumLength
  /\ \E j, k \in DOMAIN reports :
       /\ reports[j].words = 240 /\ reports[j].pass
       /\ reports[k].words = 200 /\ ~reports[k].pass

IsPrefix(a, b) == Len(a) <= Len(b) /\ a = SubSeq(b, 1, Len(a))

\* The list items of an article, in the order in which they occur.
ListItems(html) == SelectSeq(html, LAMBDA tok : tok.t \in {"li", "li_a"})

\* The citations cached for the shown topic's id.
TopicCitations ==
  IF CurrentTopic.id \in DOMAIN research_results
  THEN research_results[CurrentTopic.id].citations ELSE <<>>

\* C13: the drafted article ends with a bibliography block if and only if
\* add_bibliography is set and the cache holds a non-empty citation list for
\* the topic's id; the block comes after every section and lists one item per
\* cached citation, in cache order.
C13_BibliographyIff ==
  (stage = "draft" /\ article_content # NoneVal) =>
    LET html == article_content.html
        items == ListItems(html)
        hasBlock == Tag("<ol>") \in Range(html)
    IN /\ hasBlock <=> (settings.add_bibliography /\ TopicCitations # <<>>)
       /\ ~hasBlock => items = <<>> /\ Tag("</ol>") \notin Range(html)
       /\ hasBlock =>
            /\ SubSeq(html, Len(html) - 1, Len(html)) = <<Tag("</ol>"), Tag("\n")>>
            /\ Len(items) = Len(TopicCitations)
            /\ \A k \in DOMAIN items : IsPrefix(items[k].s, TopicCitations[k])
            /\ \A p, q \in DOMAIN html :
                 (html[q] = Tag("<ol>") /\ html[p].t \in {"txt", "<p>", "</p>"}
                    /\ html[p] # Txt(<<"Bibliografia">>, 1)) => p < q
            /\ \A p, q \in DOMAIN html :
                 (html[q] = Tag("<ol>") /\ html[p].t \in {"li", "li_a"}) => q < p

\* An article of MaxSections sections was drafted with a bibliography of
\* several citations.
C13_Witness ==
  /\ stage = "draft"
  /\ article_content # NoneVal
  /\ Len(outline.sections) = MaxSections
  /\ Tag("<ol>") \in Range(article_content.html)
  /\ Len(TopicCitations) > 2

\* citation.startswith('http')
LooksLikeUrl(c) == c # <<>> /\ c[1] = "H"

\* A citation without everything from its first "?" on.
UpToQuery(c) ==
  LET qs == {p \in DOMAIN c : c[p] = "?"} IN
  IF qs = {} THEN c
  ELSE SubSeq(c, 1, (CHOOSE p \in qs : \A q \in qs : p <= q) - 1)

\* C14: in the bibliography a citation that looks like a URL is a hyperlink to
\* the citation without everything from its first "?" on (http://a?u becomes
\* a link to http://a), and any other citation is plain text, unchanged.
C14_BibliographyItems ==
  /\ BibItems(<<<<"H", "a", "?", "u">>>>)
       = <<[t |-> "li_a", s |-> <<"H", "a">>, n |-> 0], Tag("\n")>>
  /\ (stage = "draft" /\ article_content # NoneVal) =>
       LET items == ListItems(article_content.html) IN
       \A k \in DOMAIN items :
         LET c == TopicCitations[k] IN
         IF LooksLikeUrl(c)
         THEN items[k].t = "li_a" /\ items[k].s = UpToQuery(c)
         ELSE items[k].t = "li" /\ items[k].s = c

\* The bibliography of a drafted article holds a hyperlink whose citation had a
\* query part and a plain-text citation that contains a "?".
C14_Witness ==
  /\ stage = "draft"
  /\ article_content # NoneVal
  /\ \E j, k \in DOMAIN ListItems(article_content.html) :
       LET items == ListItems(article_content.html) IN
       /\ items[j].t = "li_a" /\ items[j].s # TopicCitations[j]
       /\ items[k].t = "li" /\ "?" \in Range(items[k].s)

\* C15: save_settings(s) followed by load_settings() returns a record equal to
\* s: for the record the panel has just saved, for the same record with any
\* other section length, and for the session that starts next.
C15_SettingsRoundTrip ==
  [][/\ stage' = "settings" =>
          /\ settings_file' = save_settings(settings')
          /\ load_settings(settings_file').ret = settings'
          /\ \A sl \in SectionLengths :
               LET s == [settings' EXCEPT !.section_length = sl] IN
               load_settings(save_settings(s)) = [ret |-> s, msgs |-> {}]
          /\ \A n \in {0, 7, 10, 15, 120} : FromDigits(ToDigits(n)) = n
     /\ (stage = "settings" /\ stage' = "session") =>
          ret' = settings /\ settings' = settings /\ msgs' = {}]_vars

\* A session started with settings other than the defaults, loaded from the
\* file the panel wrote.
C15_Witness ==
  /\ stage = "session"
  /\ ret = settings
  /\ settings \notin {default_settings}
  /\ settings.num_sections # default_settings.num_sections
  /\ settings_file = save_settings(settings)

ArticleBefore(k) ==
  LET html == article_content.html
      p == CHOOSE q \in 1..(Len(html) - 1) :
             html[q] = Tag("<h3>") /\ html[q + 1] = Txt(outline.sections[k].title, 1)
  IN SubSeq(html, 1, p - 1)

\* ctx is the last c characters of text (text has more than c characters).
IsLastChars(ctx, text, c) ==
  \E j \in DOMAIN text :
    LET whole == SubSeq(text, j + 1, Len(text))
        part == c - Chars(whole)
    IN \/ part = 0 /\ ctx = whole
       \/ /\ 0 < part /\ part < CharLen(text[j])
          /\ ctx = <<[t |-> "cut", s |-> <<text[j].t>> \o text[j].s, n |-> part]>> \o whole

\* The research text cached for the shown topic's id.
TopicResearch ==
  IF CurrentTopic.id \in DOMAIN research_results
  THEN research_results[CurrentTopic.id].content ELSE <<>>

\* C17: in every iteration of the drafting loop the continuity context of the
\* prompt is the whole running article when that has at most 4000 characters
\* and its last 4000 characters otherwise, and the research text of the
\* prompt is the first 2000 characters (or all, if fewer) of the research
\* cached for the topic.
C17_PromptWindows ==
  (stage = "draft" /\ article_content # NoneVal) =>
    \A k \in DOMAIN prompts :
      LET ctx == prompts[k].previous_context
          before == ArticleBefore(k)
          res == prompts[k].research
      IN /\ Chars(ctx) <= ContextBudget
         /\ Chars(before) <= ContextBudget => ctx = before
         /\ Chars(before) > ContextBudget =>
              Chars(ctx) = ContextBudget /\ IsLastChars(ctx, before, ContextBudget)
         /\ res.present <=> TopicResearch # <<>>
         /\ Len(res.text) <= ResearchBudget
         /\ IsPrefix(res.text, TopicResearch)
         /\ Len(res.text) < ResearchBudget => res.text = TopicResearch

\* A prompt was built from a running article of more than 4000 characters and
\* a cached research text of more than 2000.
C17_Witness ==
  /\ stage = "draft"
  /\ article_content # NoneVal
  /\ Len(TopicResearch) > ResearchBudget
  /\ \E k \in DOMAIN prompts :
       /\ Chars(ArticleBefore(k)) > ContextBudget
       /\ prompts[k].previous_context[1].t = "cut"
       /\ Len(prompts[k].research.text) = ResearchBudget

\* Position in the drafted article of the canonical heading of section k.
HeadingPos(k) ==
  LET html == article_content.html IN
  CHOOSE q \in 1..(Len(html) - 1) :
    html[q] = Tag("<h3>") /\ html[q + 1] = Txt(outline.sections[k].title, 1)

\* Position after the last section block of the drafted article.
SectionsEnd ==
  LET html == article_content.html IN
  IF Tag("<ol>") \in Range(html)
  THEN (CHOOSE q \in DOMAIN html : html[q] = Tag("<ol>")) - 5
  ELSE Len(html) + 1

\* The body of section k as it stands in the drafted article: what lies between
\* its canonical heading (and the blank line after it) and the blank line that
\* ends its block.
AppendedBody(k) ==
  LET html == article_content.html
      next == IF k < Len(outline.sections) THEN HeadingPos(k + 1) ELSE SectionsEnd
  IN SubSeq(html, HeadingPos(k) + 5, next - 3)

\* C18: the word count the drafter reports for a section is the number of words
\* of the cleaned body it appends (re-emitted heading removed, tags stripped),
\* so the words of a re-emitted heading do not count toward the minimum.
C18_CountsAppendedBody ==
  (stage = "draft" /\ article_content # NoneVal) =>
    \A k \in DOMAIN reports :
      /\ reports[k].words = WordCount(AppendedBody(k))
      /\ reports[k].pass <=>
           WordCount(AppendedBody(k)) >= MinAcceptable(settings.section_length)

\* The sum of the word counts of a sequence of reports.
RECURSIVE SumWords(_)
SumWords(rs) == IF rs = <<>> THEN 0 ELSE Head(rs).words + SumWords(Tail(rs))

\* The positions of the canonical section headings of the drafted article.
CanonicalHeadings ==
  LET html == article_content.html IN
  {q \in 1..(Len(html) - 1) :
     /\ html[q] = Tag("<h3>")
     /\ \E k \in DOMAIN outline.sections : html[q + 1] = Txt(outline.sections[k].title, 1)}

\* The article is its title heading followed by n blocks in outline order, and
\* the total is the sum of the per-section counts.
ArticleLayout ==
  LET html == article_content.html
      n == Len(outline.sections)
  IN /\ IsPrefix(ArticleHead(outline), html)
     /\ Cardinality(CanonicalHeadings) = n
     /\ n > 0 => HeadingPos(1) = Len(ArticleHead(outline)) + 1
     /\ \A k \in 1..(n - 1) : HeadingPos(k) < HeadingPos(k + 1)
     /\ \A k \in 1..n :
          SubSeq(html, HeadingPos(k), HeadingPos(k) + 4)
            = <<Tag("<h3>"), Txt(outline.sections[k].title, 1), Tag("</h3>"),
                Tag("\n"), Tag("\n")>>
     /\ Len(reports) = n
     /\ total_words = SumWords(reports)

\* C19: after the loop over an outline of n sections the article is the title
\* heading followed by exactly n blocks in outline order, each the canonical
\* heading and the cleaned body, which holds no heading of its own; the total
\* word count is the sum of the n per-section counts.
C19_ArticleBlocks ==
  (stage = "draft" /\ article_content # NoneVal) =>
    /\ ArticleLayout
    /\ \A k \in DOMAIN outline.sections :
         /\ Tag("<h3>") \notin Range(AppendedBody(k))
         /\ Tag("</h3>") \notin Range(AppendedBody(k))

\* The stored article, if any, has the title and the section headings of the
\* stored outline.
ArticleOfStoredOutline ==
  article_content # NoneVal =>
    /\ Truthy(outline)
    /\ ExpectedShape(outline)
    /\ IsPrefix(ArticleHead(outline), article_content.html)
    /\ Cardinality(CanonicalHeadings) = Len(outline.sections)
    /\ \A k \in DOMAIN outline.sections :
         Txt(outline.sections[k].title, 1) \in Range(article_content.html)

\* C20: a stored article was drafted from the outline that is stored: an
\* outline stage that returns an outline stores it and clears the article, one
\* that fails leaves outline and article as they were, the outline changes in
\* no other way, and an article is stored only by drafting from the stored
\* outline.
C20_ArticleMatchesOutline ==
  [][/\ ArticleOfStoredOutline'
     /\ (stage' = "outline" /\ Truthy(ret')) =>
          outline' = ret' /\ article_content' = NoneVal
     /\ (stage' = "outline" /\ ~Truthy(ret')) =>
          outline' = outline /\ article_content' = article_content
     /\ outline' # outline => stage' = "outline" /\ article_content' = NoneVal
     /\ (article_content' # article_content /\ article_content' # NoneVal) =>
          /\ stage' = "draft"
          /\ outline # NoneVal
          /\ outline' = outline]_vars

\* An outline stage failed while an article was stored, and the article and
\* its outline are still there.
C20_Witness ==
  /\ stage = "outline"
  /\ ret = NoneVal
  /\ article_content # NoneVal
  /\ Len(outline.sections) = MaxSections

(***************************************************************************)
(* The topic behind what is stored.  The queries sent to the service name  *)
(* the topic's title (lines 191 and 349), and the service answers about    *)
(* the topic it was asked about: the research text and the cited sources   *)
(* carry the title, and so does the title of the outline.  What the cache  *)
(* and the session hold then shows which topic it was produced for.        *)
(***************************************************************************)
ResearchAbout(topic) ==
  {[kind |-> "raise", content |-> <<>>, annotations |-> [attr |-> "absent", list |-> <<>>]],
   [kind |-> "ok", content |-> topic.title \o <<" ", "w">>,
    annotations |-> [attr |-> "list", list |-> <<UrlCit(<<"H">> \o topic.title)>>]]}

OutlineAbout(topic) ==
  {[kind |-> "raise", outline |-> NoneVal],
   [kind |-> "dict",
    outline |-> [OutlineDict(OutlineKeys, MaxSections, MinPromptLen)
                   EXCEPT !.article_title = topic.title]]}

ClickResearchAbout == ClickResearchWith(ResearchAbout(CurrentTopic))

ClickGenerateOutlineAbout ==
  TopicShown /\ OutlineHandlerWith(OutlineAbout(CurrentTopic), CurrentTopic)

ClickGenerateArticleOk == ClickGenerateArticleWith(OkSectionResponses)

NextOrigin ==
  \/ ChangeSettings
  \/ SelectTopic
  \/ ClickGenerateTopics
  \/ ClickResearchAbout
  \/ ClickGenerateOutlineAbout
  \/ ClickGenerateArticleOk

SpecOrigin == Init /\ [][NextOrigin]_vars

\* The cache entry was produced by a research run on topic.
EntryAbout(entry, topic) ==
  /\ IsPrefix(topic.title, entry.content)
  /\ \A c \in Range(entry.citations) : c = <<"H">> \o topic.title

\* C21: when the outline stage or the drafting stage reads the cache entry of
\* the topic it works on, that entry was produced by a research run on that
\* same topic.
C21_CacheEntryOfSameTopic ==
  (stage \in {"outline", "draft"} /\ CurrentTopic.id \in DOMAIN research_results) =>
    EntryAbout(research_results[CurrentTopic.id], CurrentTopic)

\* C22: when the drafting stage ran, the outline it was given was generated
\* for the topic it was given, and the research it read is about the topic
\* of that outline.
C22_OutlineOfDraftedTopic ==
  stage = "draft" =>
    /\ outline.article_title = CurrentTopic.title
    /\ CurrentTopic.id \in DOMAIN research_results =>
         IsPrefix(outline.article_title, research_results[CurrentTopic.id].content)
====
